---- MODULE Spec2Model ----
(***************************************************************************)
(* Model of asic-rs: the DataCollector engine (src/miners/data.rs) and the *)
(* ESPMiner backend (src/miners/backends/espminer.rs).                     *)
(*                                                                         *)
(* A DataCollector is constructed with an empty cache.  collect(fields)    *)
(* computes the set of required commands, sends each of them through the   *)
(* ApiClient (one await point per command, in the HashSet's arbitrary      *)
(* iteration order), caches the successful responses, then extracts every  *)
(* requested field from the cache and returns the mapping.  get_data       *)
(* builds its own DataCollector, runs collect_all and normalises the       *)
(* mapping into a MinerData snapshot.                                      *)
(***************************************************************************)
EXTENDS Integers, Sequences, FiniteSets, TLC

VARIABLES
    cache,      \* DataCollector.cache: command -> response Value
    pc,         \* position of the running call: idle, exec, done, collected, returned
    fields,     \* the `fields` slice of the running collect call
    pending,    \* commands of required_commands not yet iterated
    sent,       \* commands handed to ApiClient::send_command in this call, in order
    outcome,    \* what send_command returned for each sent command in this call
    results,    \* the HashMap collect returns
    calls,      \* number of collect calls started on this DataCollector
    in_get_data,\* TRUE while the running collect is get_data's collect_all
    snapshot,   \* the MinerData get_data returned, or NoSnapshot
    prev,       \* the call before a repeated collect: what it sent and returned
    probe,      \* one application of an extractor: its arguments and its result
    fleet,      \* two ESPMiner backends polled at once: each get_data's collector
    web         \* one ESPMinerWebAPI::send_command call: its loop and its return

vars == <<cache, pc, fields, pending, sent, outcome, results, calls,
          in_get_data, snapshot, prev, probe, fleet, web>>

----------------------------------------------------------------------------
(* Bounds of the model *)

\* largest `retries` an ESPMinerWebAPI is configured with (with_retries)
MaxRetries == 2
\* longest field list handed to collect (collect_all always passes all fields)
MaxFields == 2
\* number of collect calls made on one DataCollector
MaxCalls == 2

----------------------------------------------------------------------------
(* serde_json::Value *)

JNull == [t |-> "null"]
JNum(n) == [t |-> "num", v |-> n]
JStr(s) == [t |-> "str", v |-> s]
JBool(b) == [t |-> "bool", v |-> b]
JObj(f) == [t |-> "obj", v |-> f]
JArr(s) == [t |-> "arr", v |-> s]

EmptyMap == [k \in {} |-> JNull]

\* Option<_>
None == [t |-> "none"]
Some(x) == [t |-> "some", v |-> x]

\* Err(String) of ApiClient::send_command
Failed == [t |-> "err"]

----------------------------------------------------------------------------
(* DataField, in declaration order (strum's DataField::iter()) *)

DataFieldIter ==
    << "SchemaVersion", "Timestamp", "Ip", "Mac", "DeviceInfo", "SerialNumber",
       "Hostname", "ApiVersion", "FirmwareVersion", "ControlBoardVersion",
       "ExpectedHashboards", "Hashboards", "Hashrate", "ExpectedChips",
       "TotalChips", "ExpectedFans", "Fans", "PsuFans", "AverageTemperature",
       "FluidTemperature", "Wattage", "WattageLimit", "Efficiency",
       "LightFlashing", "Messages", "Uptime", "IsMining", "Pools" >>

DataField == { DataFieldIter[i] : i \in 1..Len(DataFieldIter) }

SYSTEM_INFO_CMD == "system/info"
ASIC_INFO_CMD == "system/asic"

Commands == {SYSTEM_INFO_CMD, ASIC_INFO_CMD}

\* the commands of ESPMinerWebAPI that change the device: restart, update_settings
ControlCommands == {"system/restart", "system"}

\* every command the web API has a method for
ApiCommands == Commands \cup {"swarm/info"} \cup ControlCommands

\* DataLocation = (command, DataExtractor { func, key })
\* the pointer "": a pointer is modelled as the sequence of its characters
EmptyPointer == << >>

Loc(cmd, func, key) == [cmd |-> cmd, func |-> func, key |-> key]

\* ESPMiner::get_locations
get_locations(data_field) ==
    CASE data_field = "Mac" ->
            << Loc(SYSTEM_INFO_CMD, "get_by_key", Some("macAddr")) >>
      [] data_field = "Hostname" ->
            << Loc(SYSTEM_INFO_CMD, "get_by_key", Some("hostname")) >>
      [] data_field = "FirmwareVersion" ->
            << Loc(SYSTEM_INFO_CMD, "get_by_key", Some("version")) >>
      [] data_field = "ControlBoardVersion" ->
            << Loc(SYSTEM_INFO_CMD, "get_by_key", Some("boardVersion")) >>
      [] data_field = "Hashboards" ->
            << Loc(SYSTEM_INFO_CMD, "get_by_pointer", Some(EmptyPointer)) >>
      [] data_field = "Hashrate" ->
            << Loc(SYSTEM_INFO_CMD, "get_by_key", Some("hashRate")) >>
      [] data_field = "TotalChips" ->
            << Loc(SYSTEM_INFO_CMD, "get_by_key", Some("asicCount")),
               Loc(ASIC_INFO_CMD, "get_by_key", Some("asicCount")) >>
      [] data_field = "Fans" ->
            << Loc(SYSTEM_INFO_CMD, "get_by_key", Some("fanrpm")) >>
      [] data_field = "AverageTemperature" ->
            << Loc(SYSTEM_INFO_CMD, "get_by_key", Some("temp")) >>
      [] data_field = "Wattage" ->
            << Loc(SYSTEM_INFO_CMD, "get_by_key", Some("power")) >>
      [] data_field = "Uptime" ->
            << Loc(SYSTEM_INFO_CMD, "get_by_key", Some("uptimeSeconds")) >>
      [] data_field = "Pools" ->
            << Loc(SYSTEM_INFO_CMD, "get_by_pointer", Some(EmptyPointer)) >>
      [] OTHER -> << >>

----------------------------------------------------------------------------
(* Extractors *)

HasKey(data, k) == data.t = "obj" /\ k \in DOMAIN data.v

\* a get_by_key that hands back the whole response when no key is given
get_by_key_whole_without_key(data, key) ==
    IF key = None THEN Some(data)
    ELSE IF HasKey(data, key.v) THEN Some(data.v[key.v])
    ELSE None

\* get_by_key: data.get(key?.to_string()); Value::get with a string index
\* answers only on an object that holds the key
get_by_key(data, key) ==
    IF key = None THEN None
    ELSE IF HasKey(data, key.v) THEN Some(data.v[key.v])
    ELSE None

\* A pointer is a &str, modelled as the sequence of its characters.
\* the String made of the characters of a token
RECURSIVE StringOf(_)
StringOf(chars) ==
    IF chars = << >> THEN "" ELSE Head(chars) \o StringOf(Tail(chars))

\* str::split('/'): the pieces between the slashes (piece: the one being read)
RECURSIVE SplitSlash(_, _)
SplitSlash(chars, piece) ==
    IF chars = << >> THEN << piece >>
    ELSE IF Head(chars) = "/"
         THEN << piece >> \o SplitSlash(Tail(chars), << >>)
         ELSE SplitSlash(Tail(chars), Append(piece, Head(chars)))

\* str::replace of the two characters a b by the character to
RECURSIVE Replace2(_, _, _, _)
Replace2(chars, a, b, to) ==
    IF Len(chars) < 2 THEN chars
    ELSE IF chars[1] = a /\ chars[2] = b
         THEN << to >> \o Replace2(SubSeq(chars, 3, Len(chars)), a, b, to)
         ELSE << chars[1] >> \o Replace2(Tail(chars), a, b, to)

\* x.replace("~1", "/").replace("~0", "~")
Unescape(tok) == Replace2(Replace2(tok, "~", "1", "/"), "~", "0", "~")

\* Value::pointer's view of a pointer: abs is FALSE for a non-empty pointer
\* that does not start with '/'; toks are split('/').skip(1), unescaped
PointerSegments(p) ==
    IF p = << >> THEN [abs |-> TRUE, toks |-> << >>]
    ELSE IF Head(p) # "/" THEN [abs |-> FALSE, toks |-> << >>]
    ELSE LET pieces == Tail(SplitSlash(p, << >>))
         IN  [abs |-> TRUE,
              toks |-> [i \in DOMAIN pieces |-> Unescape(pieces[i])]]

DigitValue(ch) ==
    CASE ch = "0" -> 0 [] ch = "1" -> 1 [] ch = "2" -> 2 [] ch = "3" -> 3
      [] ch = "4" -> 4 [] ch = "5" -> 5 [] ch = "6" -> 6 [] ch = "7" -> 7
      [] ch = "8" -> 8 [] ch = "9" -> 9 [] OTHER -> -1

\* str::parse::<usize> on a string of digits
RECURSIVE DecimalValue(_, _)
DecimalValue(chars, acc) ==
    IF chars = << >> THEN acc
    ELSE DecimalValue(Tail(chars), acc * 10 + DigitValue(Head(chars)))

\* serde_json's parse_index on a pointer token: no leading '+', no leading
\* zero unless the token is "0", then usize::parse
ParseIndex(tok) ==
    IF tok = << >> THEN None
    ELSE IF tok[1] = "+" \/ (tok[1] = "0" /\ Len(tok) # 1) THEN None
    ELSE IF \E i \in DOMAIN tok : DigitValue(tok[i]) < 0 THEN None
    ELSE Some(DecimalValue(tok, 0))

\* a step that takes the token for a 1-based position in an array
PointerStep_one_based(target, tok) ==
    CASE target.t = "obj" ->
            IF StringOf(tok) \in DOMAIN target.v
            THEN Some(target.v[StringOf(tok)]) ELSE None
      [] target.t = "arr" ->
            IF ParseIndex(tok) # None /\ ParseIndex(tok).v >= 1
               /\ ParseIndex(tok).v <= Len(target.v)
            THEN Some(target.v[ParseIndex(tok).v])
            ELSE None
      [] OTHER -> None

\* one step of Value::pointer's try_fold
PointerStep(target, tok) ==
    CASE target.t = "obj" ->
            IF StringOf(tok) \in DOMAIN target.v
            THEN Some(target.v[StringOf(tok)]) ELSE None
      [] target.t = "arr" ->
            IF ParseIndex(tok) # None /\ ParseIndex(tok).v < Len(target.v)
            THEN Some(target.v[ParseIndex(tok).v + 1])
            ELSE None
      [] OTHER -> None

RECURSIVE PointerFold(_, _)
PointerFold(target, toks) ==
    IF toks = << >> THEN Some(target)
    ELSE LET nxt == PointerStep(target, Head(toks))
         IN  IF nxt = None THEN None ELSE PointerFold(nxt.v, Tail(toks))

\* get_by_pointer: data.pointer(pointer?)
get_by_pointer(data, pointer) ==
    IF pointer = None THEN None
    ELSE IF pointer.v = EmptyPointer THEN Some(data)
    ELSE IF ~PointerSegments(pointer.v).abs THEN None
    ELSE PointerFold(data, PointerSegments(pointer.v).toks)

\* (extractor.func)(response_data, extractor.key)
ApplyExtractor(loc, data) ==
    IF loc.func = "get_by_key" THEN get_by_key(data, loc.key)
    ELSE get_by_pointer(data, loc.key)

----------------------------------------------------------------------------
(* DataCollector *)

\* DataCollector::new: the cache starts empty
NewCache == EmptyMap

Insert(map, k, v) ==
    [x \in (DOMAIN map) \cup {k} |-> IF x = k THEN v ELSE map[x]]

\* a collector that asks only for the command of each field's first location
get_required_commands_primary_only(fs) ==
    { get_locations(fs[i])[1].cmd :
        i \in { k \in 1..Len(fs) : get_locations(fs[k]) # << >> } }

\* a collector that always asks for system/info, whatever the fields name
get_required_commands_always_info(fs) ==
    {SYSTEM_INFO_CMD} \cup
    UNION { { get_locations(fs[i])[j].cmd : j \in 1..Len(get_locations(fs[i])) }
            : i \in 1..Len(fs) }

\* get_required_commands: the HashSet of the commands of every location of
\* every requested field
get_required_commands(fs) ==
    UNION { { get_locations(fs[i])[j].cmd : j \in 1..Len(get_locations(fs[i])) }
            : i \in 1..Len(fs) }

\* a first loop that stores an entry for a failed command as well
CacheAfterSend_store_failure(c, command, response) ==
    Insert(c, command, IF response # Failed THEN response ELSE JNull)

\* a first loop that invalidates the whole cache when a command fails
CacheAfterSend_clear_on_failure(c, command, response) ==
    IF response # Failed THEN Insert(c, command, response) ELSE NewCache

\* the body of collect's first loop for one command
CacheAfterSend(c, command, response) ==
    IF response # Failed THEN Insert(c, command, response) ELSE c

\* a collect that hands a failed send_command to its caller (`?`)
PcAfterSend_propagate(response) == IF response = Failed THEN "error" ELSE "exec"

\* where collect continues after one send_command returned
PcAfterSend(response) == "exec"

\* an extraction that does not wait for the command loop
ExecPhaseDone_no_barrier(pend) == TRUE

\* the for loop over required_commands has run to its end
ExecPhaseDone(pend) == pend = {}

\* an extract_field that keeps walking and lets a later location win
RECURSIVE ExtractFrom_last_wins(_, _)
ExtractFrom_last_wins(c, locs) ==
    IF locs = << >> THEN None
    ELSE LET loc == Head(locs)
             hit == IF loc.cmd \in DOMAIN c
                    THEN ApplyExtractor(loc, c[loc.cmd]) ELSE None
             later == ExtractFrom_last_wins(c, Tail(locs))
         IN  IF later # None THEN later ELSE hit

\* an extract_field that walks the responses in the order they arrived
\* instead of the declared order of the locations
ExtractFrom_by_arrival(c, locs) ==
    LET arrival(cmd) ==
            IF \E i \in DOMAIN sent : sent[i] = cmd
            THEN CHOOSE i \in DOMAIN sent :
                    sent[i] = cmd /\ \A k \in 1..(i - 1) : sent[k] # cmd
            ELSE 0
        hits == { j \in DOMAIN locs :
                    /\ locs[j].cmd \in DOMAIN c
                    /\ ApplyExtractor(locs[j], c[locs[j].cmd]) # None }
    IN  IF hits = {} THEN None
        ELSE LET j == CHOOSE x \in hits : \A y \in hits :
                        \/ arrival(locs[x].cmd) < arrival(locs[y].cmd)
                        \/ arrival(locs[x].cmd) = arrival(locs[y].cmd) /\ x <= y
             IN  ApplyExtractor(locs[j], c[locs[j].cmd])

RECURSIVE ExtractFrom(_, _)
ExtractFrom(c, locs) ==
    IF locs = << >> THEN None
    ELSE LET loc == Head(locs)
             hit == IF loc.cmd \in DOMAIN c
                    THEN ApplyExtractor(loc, c[loc.cmd]) ELSE None
         IN  IF hit # None THEN hit ELSE ExtractFrom(c, Tail(locs))

\* extract_field: the first location whose command is cached and whose
\* extractor answers
extract_field(c, field) == ExtractFrom(c, get_locations(field))

\* a second loop that extracts every field the cache can supply, requested
\* or not
ExtractLoop_every_cached(c, fs, res) ==
    [f \in { g \in DataField : extract_field(c, g) # None } |->
        extract_field(c, f).v]

\* collect's second loop: for &field in fields { if let Some(value) ... insert }
RECURSIVE ExtractLoop(_, _, _)
ExtractLoop(c, fs, res) ==
    IF fs = << >> THEN res
    ELSE LET value == extract_field(c, Head(fs))
         IN  ExtractLoop(c, Tail(fs),
                         IF value # None THEN Insert(res, Head(fs), value.v)
                         ELSE res)

\* collect_all: the slice DataField::iter().collect::<Vec<_>>() handed to collect
collect_all_fields == DataFieldIter

----------------------------------------------------------------------------
(* The device behind the ApiClient: what a command may answer *)

\* a healthy device: every key the backend reads, main pool in use
InfoFull ==
    JObj([macAddr |-> JStr("AA:BB:CC:DD:EE:FF"), hostname |-> JStr("bitaxe"),
          version |-> JStr("v2.4.0"), boardVersion |-> JStr("204"),
          hashRate |-> JNum(50), asicCount |-> JNum(1), fanrpm |-> JNum(3000),
          temp |-> JNum(60), power |-> JNum(100), uptimeSeconds |-> JNum(10),
          voltage |-> JNum(5000), vrTemp |-> JNum(45), frequency |-> JNum(500),
          expectedHashrate |-> JNum(60),
          stratumUrl |-> JStr("pool.a"), stratumPort |-> JNum(3333),
          sharesAccepted |-> JNum(7), sharesRejected |-> JNum(1),
          stratumUser |-> JStr("u1"), isUsingFallbackStratum |-> JBool(FALSE),
          fallbackStratumURL |-> JStr("pool.b"),
          fallbackStratumPort |-> JNum(4444),
          fallbackStratumUser |-> JStr("u2")])

\* a device on its fallback pool, not hashing, with counters above 16 bits
InfoFallback ==
    JObj([macAddr |-> JStr("not-a-mac"), hashRate |-> JNum(0),
          power |-> JNum(100), asicCount |-> JNum(65537),
          stratumPort |-> JNum(65536 + 3333),
          isUsingFallbackStratum |-> JBool(TRUE),
          fallbackStratumURL |-> JStr("pool.b"),
          fallbackStratumPort |-> JNum(65536 + 4444)])

\* keys present with null or wrongly typed values
InfoNulls ==
    JObj([hashRate |-> JNull, asicCount |-> JNull, power |-> JStr("100"),
          hostname |-> JNum(7), stratumUrl |-> JNull,
          isUsingFallbackStratum |-> JStr("yes"), fanrpm |-> JNull])

\* a response without asicCount and without power
InfoNoAsic == JObj([hashRate |-> JNum(50), hostname |-> JStr("bitaxe")])

InfoResponses == {InfoFull, InfoFallback, InfoNulls, InfoNoAsic, JObj(EmptyMap), JNull}

AsicFull == JObj([asicCount |-> JNum(2), ASICModel |-> JStr("BM1370")])

AsicResponses == {AsicFull, JObj(EmptyMap)}

\* Result<Value, String> of send_command: a decoded response or a failure
Responses(command) ==
    (IF command = SYSTEM_INFO_CMD THEN InfoResponses ELSE AsicResponses)
        \cup {Failed}

\* the fields a caller of collect asks for: one location, two locations on
\* two commands, a pointer location, no location
RequestFields == {"Hashrate", "TotalChips", "Hashboards", "SerialNumber"}

RECURSIVE SeqsUpTo(_, _)
SeqsUpTo(S, n) ==
    IF n = 0 THEN { << >> }
    ELSE LET shorter == SeqsUpTo(S, n - 1)
         IN  shorter \cup { Append(q, x) : q \in shorter, x \in S }

FieldLists == SeqsUpTo(RequestFields, MaxFields)

NoSnapshot == [t |-> "none"]

NoCall == [t |-> "none"]

NoProbe == [t |-> "none"]

----------------------------------------------------------------------------
(* DataExtensions: typed reads of the collected mapping (used by get_data) *)

\* FromValue: the typed view of a raw Value, absent on a type mismatch
FromValue(T, v) ==
    CASE T = "String" -> IF v.t = "str" THEN Some(v.v) ELSE None
      [] T = "f64"    -> IF v.t = "num" THEN Some(v.v) ELSE None
      [] T = "u64"    -> IF v.t = "num" /\ v.v >= 0 THEN Some(v.v) ELSE None
      [] T = "bool"   -> IF v.t = "bool" THEN Some(v.v) ELSE None

\* Option::unwrap_or
UnwrapOr(o, default) == IF o = None THEN default ELSE o.v

extract(data, T, field) ==
    IF field \in DOMAIN data THEN FromValue(T, data[field]) ELSE None

extract_nested(data, T, field, key) ==
    IF field \in DOMAIN data /\ HasKey(data[field], key)
    THEN FromValue(T, data[field].v[key])
    ELSE None

extract_nested_or(data, T, field, key, default) ==
    UnwrapOr(extract_nested(data, T, field, key), default)

----------------------------------------------------------------------------
(* Typed values of the normalised record *)

U16 == 65536

\* `u as u16`: the low 16 bits
\* a narrowing that saturates at u16::MAX
AsU16_saturating(u) == IF u >= U16 THEN U16 - 1 ELSE u

\* `u as u16`: the low 16 bits
AsU16(u) == u % U16

\* MacAddr::from_str(..).ok(): six colon-separated octets, else absent
MacAddr_from_str(str) ==
    IF str \in {"AA:BB:CC:DD:EE:FF"} THEN Some([mac |-> str]) ELSE None

HashRateGiga(f) == [value |-> f, unit |-> "GigaHash", algo |-> "SHA256"]
Power_from_watts(f) == [watts |-> f]
Temperature_from_celsius(f) == [celsius |-> f]
Voltage_from_millivolts(f) == [millivolts |-> f]
Frequency_from_megahertz(f) == [megahertz |-> f]
AngularVelocity_from_rpm(f) == [rpm |-> f]
Duration_from_secs(u) == [secs |-> u]

RECURSIVE Gcd(_, _)
Gcd(a, b) == IF b = 0 THEN a ELSE Gcd(b, a % b)

\* f64 quotient of two non-negative numbers as a reduced fraction; a zero
\* divisor gives IEEE's inf (or NaN for 0/0) and never traps
F64Div(num, den) ==
    IF den = 0 THEN (IF num = 0 THEN [f |-> "NaN"] ELSE [f |-> "inf"])
    ELSE [f |-> "finite", n |-> num \div Gcd(num, den), d |-> den \div Gcd(num, den)]

\* watts per gigahash: the division by 1000.0 left out
EfficiencyOf_per_gigahash(hr, w) == F64Div(w.watts, hr.value)

\* hashrate_th = hr.value / 1000.0; w.as_watts() / hashrate_th
EfficiencyOf(hr, w) == F64Div(w.watts * 1000, hr.value)

\* the match with a 0.0 in place of None when an input is missing
EfficiencyMatch_default_zero(hashrate, wattage) ==
    IF hashrate # None /\ wattage # None
    THEN Some(EfficiencyOf(hashrate.v, wattage.v))
    ELSE Some(F64Div(0, 1))

\* match (hashrate.as_ref(), wattage.as_ref()) { (Some(hr), Some(w)) => .., _ => None }
EfficiencyMatch(hashrate, wattage) ==
    IF hashrate # None /\ wattage # None
    THEN Some(EfficiencyOf(hashrate.v, wattage.v))
    ELSE None

\* a closure that counts a hashrate of 0 as mining
IsPositive_or_zero(hr) == hr.value >= 0

\* |hr| hr.value > 0.0
IsPositive(hr) == hr.value > 0

\* the closures and constructors get_data passes to the mapping helpers
Convert(conv, x) ==
    CASE conv = "HashRate"                 -> HashRateGiga(x)
      [] conv = "as u16"                   -> AsU16(x)
      [] conv = "Power::from_watts"        -> Power_from_watts(x)
      [] conv = "Temperature::from_celsius" -> Temperature_from_celsius(x)
      [] conv = "Voltage::from_millivolts" -> Voltage_from_millivolts(x)
      [] conv = "Frequency::from_megahertz" -> Frequency_from_megahertz(x)
      [] conv = "Duration::from_secs"      -> Duration_from_secs(x)
      [] conv = "vec![FanData]"            ->
            << [position |-> 0, rpm |-> AngularVelocity_from_rpm(x)] >>
      [] conv = "hr.value > 0.0"           -> IsPositive(x)

\* Option::map
OptMap(o, conv) == IF o = None THEN None ELSE Some(Convert(conv, o.v))

extract_map(data, T, field, conv) == OptMap(extract(data, T, field), conv)

extract_map_or(data, T, field, default, conv) ==
    UnwrapOr(extract_map(data, T, field, conv), default)

extract_nested_map(data, T, field, key, conv) ==
    OptMap(extract_nested(data, T, field, key), conv)

----------------------------------------------------------------------------
(* ESPMiner::get_data, after collect_all returned `data` *)

hashboards(data, hashrate, total_chips) ==
    LET board_voltage == extract_nested_map(data, "f64", "Hashboards", "voltage",
                                            "Voltage::from_millivolts")
        board_temperature == extract_nested_map(data, "f64", "Hashboards", "vrTemp",
                                                "Temperature::from_celsius")
        board_frequency == extract_nested_map(data, "f64", "Hashboards", "frequency",
                                              "Frequency::from_megahertz")
        chip_temperature == extract_nested_map(data, "f64", "Hashboards", "temp",
                                               "Temperature::from_celsius")
        expected_hashrate ==
            Some(HashRateGiga(extract_nested_or(data, "f64", "Hashboards",
                                                "expectedHashrate", 0)))
        board_hashrate == hashrate
        chip_info == [position |-> 0,
                      temperature |-> chip_temperature,
                      voltage |-> board_voltage,
                      frequency |-> board_frequency,
                      tuned |-> None,
                      working |-> Some(TRUE),
                      hashrate |-> board_hashrate]
        board_data == [position |-> 0,
                       hashrate |-> board_hashrate,
                       expected_hashrate |-> expected_hashrate,
                       board_temperature |-> board_temperature,
                       intake_temperature |-> board_temperature,
                       outlet_temperature |-> board_temperature,
                       expected_chips |-> "miner_hardware.chips",
                       working_chips |-> total_chips,
                       serial_number |-> None,
                       chips |-> << chip_info >>,
                       voltage |-> board_voltage,
                       frequency |-> board_frequency,
                       tuned |-> None,
                       active |-> Some(TRUE)]
    IN  << board_data >>

\* a main pool that is marked active whatever the flag says
main_pool_active_always(is_using_fallback) == Some(TRUE)

\* main_pool_data.active: Some(!is_using_fallback)
main_pool_active(is_using_fallback) == Some(~is_using_fallback)

\* fallback_pool_data.active: Some(is_using_fallback)
fallback_pool_active(is_using_fallback) == Some(is_using_fallback)

pools(data) ==
    LET main_url == extract_nested_or(data, "String", "Pools", "stratumUrl", "")
        main_port == extract_nested_or(data, "u64", "Pools", "stratumPort", 0)
        accepted_share == extract_nested(data, "u64", "Pools", "sharesAccepted")
        rejected_share == extract_nested(data, "u64", "Pools", "sharesRejected")
        main_user == extract_nested(data, "String", "Pools", "stratumUser")
        is_using_fallback ==
            extract_nested_or(data, "bool", "Pools", "isUsingFallbackStratum", FALSE)
        main_pool_url == [scheme |-> "StratumV1", host |-> main_url,
                          port |-> AsU16(main_port), pubkey |-> None]
        main_pool_data == [position |-> Some(0),
                           url |-> Some(main_pool_url),
                           accepted_shares |-> accepted_share,
                           rejected_shares |-> rejected_share,
                           active |-> main_pool_active(is_using_fallback),
                           alive |-> None,
                           user |-> main_user]
        fallback_url ==
            extract_nested_or(data, "String", "Pools", "fallbackStratumURL", "")
        fallback_port ==
            extract_nested_or(data, "u64", "Pools", "fallbackStratumPort", 0)
        fallback_user == extract_nested(data, "String", "Pools", "fallbackStratumUser")
        fallback_pool_url == [scheme |-> "StratumV1", host |-> fallback_url,
                              port |-> AsU16(fallback_port), pubkey |-> None]
        fallback_pool_data == [position |-> Some(1),
                               url |-> Some(fallback_pool_url),
                               accepted_shares |-> accepted_share,
                               rejected_shares |-> rejected_share,
                               active |-> fallback_pool_active(is_using_fallback),
                               alive |-> None,
                               user |-> fallback_user]
    IN  << main_pool_data, fallback_pool_data >>

\* the MinerData get_data returns for the mapping `data` read at `timestamp`
MinerData(data, timestamp) ==
    LET mac_str == extract(data, "String", "Mac")
        mac == IF mac_str = None THEN None ELSE MacAddr_from_str(mac_str.v)
        hostname == extract(data, "String", "Hostname")
        api_version == extract(data, "String", "ApiVersion")
        firmware_version == extract(data, "String", "FirmwareVersion")
        control_board_version == extract(data, "String", "ControlBoardVersion")
        hashrate == extract_map(data, "f64", "Hashrate", "HashRate")
        total_chips == extract_map(data, "u64", "TotalChips", "as u16")
        wattage == extract_map(data, "f64", "Wattage", "Power::from_watts")
        average_temperature ==
            extract_map(data, "f64", "AverageTemperature",
                        "Temperature::from_celsius")
        efficiency == EfficiencyMatch(hashrate, wattage)
        fans == extract_map_or(data, "f64", "Fans", << >>, "vec![FanData]")
        uptime == extract_map(data, "u64", "Uptime", "Duration::from_secs")
        is_mining == UnwrapOr(OptMap(hashrate, "hr.value > 0.0"), FALSE)
    IN  [schema_version |-> "CARGO_PKG_VERSION",
         timestamp |-> timestamp,
         ip |-> "self.ip",
         mac |-> mac,
         device_info |-> "DeviceInfo(BitAxe, model, firmware, SHA256)",
         serial_number |-> None,
         hostname |-> hostname,
         api_version |-> api_version,
         firmware_version |-> firmware_version,
         control_board_version |-> control_board_version,
         expected_hashboards |-> "miner_hardware.boards",
         hashboards |-> hashboards(data, hashrate, total_chips),
         hashrate |-> hashrate,
         expected_chips |-> "miner_hardware.chips",
         total_chips |-> total_chips,
         expected_fans |-> "miner_hardware.fans",
         fans |-> fans,
         psu_fans |-> << >>,
         average_temperature |-> average_temperature,
         fluid_temperature |-> None,
         wattage |-> wattage,
         wattage_limit |-> None,
         efficiency |-> efficiency,
         light_flashing |-> None,
         messages |-> << >>,
         uptime |-> uptime,
         is_mining |-> is_mining,
         pools |-> pools(data)]

\* a get_data that gives up when the device reported no hashrate
GetDataReturn_require_hashrate(data, timestamp) ==
    IF extract(data, "f64", "Hashrate") = None THEN NoSnapshot
    ELSE Some(MinerData(data, timestamp))

\* what get_data hands to its caller: always the MinerData, the trait's
\* return type has no error case
GetDataReturn(data, timestamp) == Some(MinerData(data, timestamp))

\* SystemTime::now() as seconds since the epoch
Timestamps == {1700000000, 1700000001}

----------------------------------------------------------------------------
(* ESPMinerWebAPI::send_command: the request loop *)

\* the HTTP methods a caller may hand to send_command
Methods == {"GET", "POST", "PATCH", "DELETE"}

\* Result<_, ESPMinerError>
Ok(x) == [t |-> "ok", v |-> x]
Err(e) == [t |-> "err", e |-> e]

Timeout == [kind |-> "Timeout"]
NetworkError == [kind |-> "NetworkError"]
HttpError(status) == [kind |-> "HttpError", status |-> status]
ParseError == [kind |-> "ParseError"]
UnsupportedMethod(method) == [kind |-> "UnsupportedMethod", method |-> method]
MaxRetriesExceeded == [kind |-> "MaxRetriesExceeded"]

\* a reqwest::Response: its status and the bytes of its body
Response(status, body) == [status |-> status, body |-> body]

\* what the network does with one request: a response arrives, the
\* timeout elapses, or the transport fails
NetworkOutcomes ==
    { Ok(Response(200, "{}")), Ok(Response(200, "{\"hashRate\":50}")),
      Ok(Response(200, "<html>")), Ok(Response(404, "")),
      Ok(Response(500, "{}")), Err(Timeout), Err(NetworkError) }

\* execute_request: a method other than GET, POST, PATCH is refused before
\* anything is sent
execute_request(method, network) ==
    IF method \notin {"GET", "POST", "PATCH"} THEN Err(UnsupportedMethod(method))
    ELSE network

\* StatusCode::is_success
is_success(status) == status \in 200..299

\* response.json::<Value>(): the decoded body, or a decoding error
json(body) ==
    CASE body = "{}" -> Ok(JObj(EmptyMap))
      [] body = "{\"hashRate\":50}" -> Ok(JObj([hashRate |-> JNum(50)]))
      [] OTHER -> Err(ParseError)

\* a loop that runs once more than configured
AttemptRange_one_more(retries) == 0..(retries + 1)

\* for attempt in 0..=self.retries
AttemptRange(retries) == 0..retries

\* an error branch that forgets the ignore_errors flag
ReturnsError_flag_forgotten(attempt, retries, ignore_errors) == attempt = retries

\* if !ignore_errors && attempt == self.retries
ReturnsError(attempt, retries, ignore_errors) ==
    ~ignore_errors /\ attempt = retries

\* the error a failed attempt would be returned as
ErrorOf(result) ==
    IF result.t = "err" THEN result.e
    ELSE IF ~is_success(result.v.status) THEN HttpError(result.v.status)
    ELSE ParseError

\* the attempt produced Ok(json_data)
Decoded(result) ==
    /\ result.t = "ok"
    /\ is_success(result.v.status)
    /\ json(result.v.body).t = "ok"

NoRequest == [pc |-> "idle"]

\* no ESPMiner backend is being polled
NoFleet == [t |-> "none"]

----------------------------------------------------------------------------
(* The state machine *)

Init ==
    /\ cache = NewCache
    /\ pc = "idle"
    /\ fields = << >>
    /\ pending = {}
    /\ sent = << >>
    /\ outcome = EmptyMap
    /\ results = EmptyMap
    /\ calls = 0
    /\ in_get_data = FALSE
    /\ snapshot = NoSnapshot
    /\ prev = NoCall
    /\ probe = NoProbe
    /\ fleet = NoFleet
    /\ web = NoRequest

\* collect(fs) is called on the DataCollector; the map an earlier call
\* returned has been dropped, the cache is whatever that call left
CollectStart(fs) ==
    /\ pc \in {"idle", "done"}
    /\ ~in_get_data
    /\ calls < MaxCalls
    /\ fields' = fs
    /\ pending' = get_required_commands(fs)
    /\ sent' = << >>
    /\ outcome' = EmptyMap
    /\ results' = EmptyMap
    /\ calls' = calls + 1
    /\ pc' = "exec"
    /\ prev' = NoCall
    /\ UNCHANGED <<cache, in_get_data, snapshot, probe, fleet, web>>

\* get_data: DataCollector::new, then collect_all = collect(DataField::iter())
GetDataStart ==
    /\ pc = "idle"
    /\ calls = 0
    /\ cache' = NewCache
    /\ in_get_data' = TRUE
    /\ fields' = collect_all_fields
    /\ pending' = get_required_commands(collect_all_fields)
    /\ sent' = << >>
    /\ outcome' = EmptyMap
    /\ results' = EmptyMap
    /\ calls' = calls + 1
    /\ pc' = "exec"
    /\ UNCHANGED <<snapshot, prev, probe, fleet, web>>

\* one iteration of `for command in required_commands`: the HashSet yields
\* some command not yet visited, send_command answers or fails
SendCommand(command, response) ==
    /\ pc = "exec"
    /\ command \in pending
    /\ response \in Responses(command)
    /\ cache' = CacheAfterSend(cache, command, response)
    /\ pending' = pending \ {command}
    /\ sent' = Append(sent, command)
    /\ outcome' = Insert(outcome, command, response)
    /\ pc' = PcAfterSend(response)
    /\ UNCHANGED <<fields, results, calls, in_get_data, snapshot, prev, probe, fleet, web>>

\* the second loop of collect and its return
Extract ==
    /\ pc = "exec"
    /\ ExecPhaseDone(pending)
    /\ results' = ExtractLoop(cache, fields, EmptyMap)
    /\ pc' = IF in_get_data THEN "collected" ELSE "done"
    /\ UNCHANGED <<cache, fields, pending, sent, outcome, calls,
                   in_get_data, snapshot, prev, probe, fleet, web>>

\* the rest of get_data: normalise the mapping and return the MinerData
Normalize(timestamp) ==
    /\ pc = "collected"
    /\ in_get_data
    /\ snapshot' = GetDataReturn(results, timestamp)
    /\ pc' = "returned"
    /\ UNCHANGED <<cache, fields, pending, sent, outcome, results, calls,
                   in_get_data, prev, probe, fleet, web>>

\* what a finished call leaves to compare the next one with
CallRecord ==
    [t |-> "call", fields |-> fields, sent |-> sent, outcome |-> outcome,
     cache |-> cache, results |-> results, snapshot |-> snapshot]

\* the caller runs collect once more with the same `fields` slice on the
\* same DataCollector
CollectAgain ==
    /\ pc = "done"
    /\ ~in_get_data
    /\ calls < MaxCalls
    /\ prev' = CallRecord
    /\ pending' = get_required_commands(fields)
    /\ sent' = << >>
    /\ outcome' = EmptyMap
    /\ results' = EmptyMap
    /\ calls' = calls + 1
    /\ pc' = "exec"
    /\ UNCHANGED <<cache, fields, in_get_data, snapshot, probe, fleet, web>>

\* the caller polls the miner again: get_data builds a new DataCollector
GetDataAgain ==
    /\ pc = "returned"
    /\ in_get_data
    /\ calls < MaxCalls
    /\ prev' = CallRecord
    /\ cache' = NewCache
    /\ pending' = get_required_commands(collect_all_fields)
    /\ sent' = << >>
    /\ outcome' = EmptyMap
    /\ results' = EmptyMap
    /\ calls' = calls + 1
    /\ pc' = "exec"
    /\ UNCHANGED <<fields, in_get_data, snapshot, probe, fleet, web>>

Next ==
    \/ \E fs \in FieldLists : CollectStart(fs)
    \/ GetDataStart
    \/ \E command \in ApiCommands, response \in InfoResponses \cup AsicResponses \cup {Failed} :
            SendCommand(command, response)
    \/ Extract
    \/ \E timestamp \in Timestamps : Normalize(timestamp)

Spec == Init /\ [][Next]_vars

----------------------------------------------------------------------------
(* The extractors on their own: a response and a key or pointer are handed
   to get_by_key or get_by_pointer, as collect's extraction loop does *)

\* responses of every JSON kind: nested objects and arrays, keys that need
\* escaping in a pointer, an empty key, a key that looks like an index
LookupDoc ==
    JObj(("p" :> JArr(<< JObj([u |-> JStr("a")]), JObj([u |-> JStr("b")]) >>))
         @@ ("h" :> JNum(50)) @@ ("n" :> JNull)
         @@ ("a/b" :> JNum(1)) @@ ("m~n" :> JNum(2)) @@ ("" :> JNum(3))
         @@ ("0" :> JStr("zero")))

LookupValues ==
    { LookupDoc,
      JArr(<< JNum(10), JObj([u |-> JStr("c")]), JArr(<< >>) >>),
      JObj([p |-> JObj(("0" :> JStr("x")) @@ ("01" :> JStr("y")))]),
      JObj([p |-> JStr("text")]),
      JObj([p |-> JArr(<< >>)]),
      JObj(EmptyMap), JArr(<< >>), JNull, JNum(7), JStr("p"), JBool(TRUE),
      InfoFull }

\* "", "/", "/p", "/p/0", "/p/1", "/p/2", "/p/01", "/p/+1", "/p/0/u",
\* "/p/0/x", "/p/", "/h", "/h/x", "/n", "/n/x", "/a~1b", "/m~0n", "/zz",
\* "/0", "/1", "/1/u", "p", "p/0", "0"
LookupPointers ==
    { << >>, <<"/">>, <<"/", "p">>, <<"/", "p", "/", "0">>,
      <<"/", "p", "/", "1">>, <<"/", "p", "/", "2">>,
      <<"/", "p", "/", "0", "1">>, <<"/", "p", "/", "+", "1">>,
      <<"/", "p", "/", "0", "/", "u">>, <<"/", "p", "/", "0", "/", "x">>,
      <<"/", "p", "/">>, <<"/", "h">>, <<"/", "h", "/", "x">>,
      <<"/", "n">>, <<"/", "n", "/", "x">>,
      <<"/", "a", "~", "1", "b">>, <<"/", "m", "~", "0", "n">>,
      <<"/", "z", "z">>, <<"/", "0">>, <<"/", "1">>, <<"/", "1", "/", "u">>,
      <<"p">>, <<"p", "/", "0">>, <<"0">> }

LookupKeys == {"p", "h", "n", "u", "0", "", "a/b", "zz", "hashRate"}

\* what collect's state is left at while an extractor is applied on its own
collector_vars ==
    <<cache, pc, fields, pending, sent, outcome, results, calls, in_get_data,
      snapshot, prev, fleet, web>>

\* the collector's state and the extractor probe, untouched by the web client
collector_vars_of_web ==
    <<cache, pc, fields, pending, sent, outcome, results, calls, in_get_data,
      snapshot, prev, probe>>

\* get_by_pointer(data, pointer)
PointerLookup(data, pointer) ==
    /\ probe' = [t |-> "probe", func |-> "get_by_pointer", data |-> data,
                 key |-> pointer, result |-> get_by_pointer(data, pointer)]
    /\ UNCHANGED collector_vars

\* get_by_key(data, key)
KeyLookup(data, key) ==
    /\ probe' = [t |-> "probe", func |-> "get_by_key", data |-> data,
                 key |-> key, result |-> get_by_key(data, key)]
    /\ UNCHANGED collector_vars

NextLookup ==
    \/ \E data \in LookupValues :
            \/ PointerLookup(data, None)
            \/ \E pointer \in LookupPointers : PointerLookup(data, Some(pointer))
    \/ \E data \in LookupValues :
            \/ KeyLookup(data, None)
            \/ \E key \in LookupKeys : KeyLookup(data, Some(key))

SpecLookup == Init /\ [][NextLookup]_vars

----------------------------------------------------------------------------
(* One call of ESPMinerWebAPI::send_command *)

\* a client built with with_retries(retries) is handed a command
WebSendCommand(retries, ignore_errors, method) ==
    /\ web.pc = "idle"
    /\ web' = [pc |-> "loop", retries |-> retries, ignore_errors |-> ignore_errors,
               method |-> method, attempt |-> 0, log |-> << >>]
    /\ UNCHANGED <<collector_vars_of_web, fleet>>

\* one iteration of the for loop: the request, then the match on its result
WebAttempt(network) ==
    /\ web.pc = "loop"
    /\ web.attempt \in AttemptRange(web.retries)
    /\ LET result == execute_request(web.method, network)
           log == Append(web.log, result)
       IN  web' =
             IF Decoded(result)
             THEN [web EXCEPT !.pc = "returned", !.log = log] @@
                  [ret |-> Ok(json(result.v.body).v)]
             ELSE IF ReturnsError(web.attempt, web.retries, web.ignore_errors)
             THEN [web EXCEPT !.pc = "returned", !.log = log] @@
                  [ret |-> Err(ErrorOf(result))]
             ELSE [web EXCEPT !.attempt = web.attempt + 1, !.log = log]
    /\ UNCHANGED <<collector_vars_of_web, fleet>>

\* the range is exhausted: Err(ESPMinerError::MaxRetriesExceeded)
WebLoopEnd ==
    /\ web.pc = "loop"
    /\ web.attempt \notin AttemptRange(web.retries)
    /\ web' = [web EXCEPT !.pc = "returned"] @@ [ret |-> Err(MaxRetriesExceeded)]
    /\ UNCHANGED <<collector_vars_of_web, fleet>>

NextRetry ==
    \/ \E retries \in 0..MaxRetries : \E ignore_errors \in BOOLEAN :
        \E method \in Methods : WebSendCommand(retries, ignore_errors, method)
    \/ \E network \in NetworkOutcomes : WebAttempt(network)
    \/ WebLoopEnd

SpecRetry == Init /\ [][NextRetry]_vars

\* every request is bounded by self.timeout (and the client's own timeout),
\* so an attempt that has started ends, and the loop goes on
SpecRetryFair ==
    /\ SpecRetry
    /\ WF_vars(\E network \in NetworkOutcomes : WebAttempt(network))
    /\ WF_vars(WebLoopEnd)

----------------------------------------------------------------------------
(* Two ESPMiner backends polled at the same time: each get_data is a task
   of its own, suspended at every send_command await *)

Devices == {"a", "b"}

\* one cache that every collector of the process uses
CacheSlot_shared(device) == "a"

\* DataCollector::new: `cache: HashMap::new()`, a map owned by the collector
\* that get_data built for this device
CacheSlot(device) == device

IdleCall ==
    [pc |-> "idle", pending |-> {}, sent |-> << >>, outcome |-> EmptyMap,
     results |-> EmptyMap, snapshot |-> NoSnapshot]

\* the get_data call of each device
FleetCalls == IF fleet = NoFleet THEN [d \in Devices |-> IdleCall] ELSE fleet.call

\* the caches of the collectors built so far
FleetCaches == IF fleet = NoFleet THEN EmptyMap ELSE fleet.caches

Fleet(call, caches) == [t |-> "fleet", call |-> call, caches |-> caches]

not_fleet_vars ==
    <<cache, pc, fields, pending, sent, outcome, results, calls, in_get_data,
      snapshot, prev, probe, web>>

\* get_data on device d: DataCollector::new, then collect_all's entry
FleetGetDataStart(d) ==
    /\ FleetCalls[d].pc = "idle"
    /\ fleet' = Fleet([FleetCalls EXCEPT ![d] =
                          [@ EXCEPT !.pc = "exec",
                                    !.pending = get_required_commands(collect_all_fields)]],
                      Insert(FleetCaches, CacheSlot(d), NewCache))
    /\ UNCHANGED not_fleet_vars

\* one iteration of the command loop of d's collector
FleetSendCommand(d, command, response) ==
    /\ FleetCalls[d].pc = "exec"
    /\ command \in FleetCalls[d].pending
    /\ response \in Responses(command)
    /\ fleet' = Fleet([FleetCalls EXCEPT ![d] =
                          [@ EXCEPT !.pc = PcAfterSend(response),
                                    !.pending = @ \ {command},
                                    !.sent = Append(@, command),
                                    !.outcome = Insert(@, command, response)]],
                      [FleetCaches EXCEPT ![CacheSlot(d)] =
                          CacheAfterSend(@, command, response)])
    /\ UNCHANGED not_fleet_vars

\* the extraction loop of d's collector and collect_all's return
FleetExtract(d) ==
    /\ FleetCalls[d].pc = "exec"
    /\ ExecPhaseDone(FleetCalls[d].pending)
    /\ fleet' = Fleet([FleetCalls EXCEPT ![d] =
                          [@ EXCEPT !.pc = "collected",
                                    !.results = ExtractLoop(FleetCaches[CacheSlot(d)],
                                                            collect_all_fields, EmptyMap)]],
                      FleetCaches)
    /\ UNCHANGED not_fleet_vars

\* the rest of d's get_data
FleetNormalize(d, timestamp) ==
    /\ FleetCalls[d].pc = "collected"
    /\ fleet' = Fleet([FleetCalls EXCEPT ![d] =
                          [@ EXCEPT !.pc = "returned",
                                    !.snapshot = GetDataReturn(FleetCalls[d].results,
                                                               timestamp)]],
                      FleetCaches)
    /\ UNCHANGED not_fleet_vars

NextFleet ==
    \E d \in Devices :
        \/ FleetGetDataStart(d)
        \/ \E command \in Commands : \E response \in Responses(command) :
                FleetSendCommand(d, command, response)
        \/ FleetExtract(d)
        \/ \E timestamp \in Timestamps : FleetNormalize(d, timestamp)

SpecFleet == Init /\ [][NextFleet]_vars

\* the same machine with repeated calls: a collect, or a get_data, is
\* followed by another one for the same fields
NextRepeat ==
    \/ \E fs \in FieldLists : CollectStart(fs)
    \/ CollectAgain
    \/ GetDataStart
    \/ GetDataAgain
    \/ \E command \in Commands : \E response \in Responses(command) :
            SendCommand(command, response)
    \/ Extract
    \/ \E timestamp \in Timestamps : Normalize(timestamp)

SpecRepeat == Init /\ [][NextRepeat]_vars

----------------------------------------------------------------------------
(* Vocabulary of the properties *)

\* the running call's extraction loop has run
PostExtract == {"done", "collected", "returned"}

\* the commands named by some location of some field of fs
CommandsReferencedBy(fs) ==
    { c \in Commands :
        \E i \in DOMAIN fs : \E j \in DOMAIN get_locations(fs[i]) :
            get_locations(fs[i])[j].cmd = c }

TimesSent(c) == Cardinality({ i \in DOMAIN sent : sent[i] = c })

FieldsOf(fs) == { fs[i] : i \in DOMAIN fs }

\* the locations of field f that yield a value on the cache, by position
Hits(c, f) ==
    { j \in DOMAIN get_locations(f) :
        /\ get_locations(f)[j].cmd \in DOMAIN c
        /\ ApplyExtractor(get_locations(f)[j], c[get_locations(f)[j].cmd]) # None }

FirstHit(c, f) == CHOOSE j \in Hits(c, f) : \A k \in Hits(c, f) : j <= k

HitValue(c, f, j) ==
    ApplyExtractor(get_locations(f)[j], c[get_locations(f)[j].cmd]).v

\* the commands that answered during the running call
Succeeded == { c \in DOMAIN outcome : outcome[c] # Failed }

----------------------------------------------------------------------------
(* C1: one collect(F) call sends exactly the commands named by some        *)
(* location of some field of F, each exactly once, and no other command;   *)
(* while the command loop runs no command has been sent twice and none     *)
(* outside that set.                                                       *)
C1_ExactCommandSet ==
    /\ pc \in PostExtract =>
          \A c \in Commands :
              TimesSent(c) = IF c \in CommandsReferencedBy(fields) THEN 1 ELSE 0
    /\ \A c \in Commands :
          /\ TimesSent(c) <= 1
          /\ TimesSent(c) = 1 => c \in CommandsReferencedBy(fields)

\* two fields sharing system/info, one of them also naming system/asic
C1_Witness ==
    /\ pc = "done"
    /\ fields = << "Hashrate", "TotalChips" >>
    /\ TimesSent(SYSTEM_INFO_CMD) = 1
    /\ TimesSent(ASIC_INFO_CMD) = 1

\* the same field named twice
C1_WitnessDuplicate ==
    pc = "done" /\ fields = << "TotalChips", "TotalChips" >> /\ Len(sent) = 2

(* C2: the value returned for a requested field is the one of the first    *)
(* location, in declared order, whose command is cached and whose          *)
(* extractor answers; locations that miss are skipped, and a field no      *)
(* location answers for is not in the mapping.                             *)
C2_FirstLocationWins ==
    pc \in PostExtract =>
        \A f \in FieldsOf(fields) :
            IF Hits(cache, f) = {}
            THEN f \notin DOMAIN results
            ELSE /\ f \in DOMAIN results
                 /\ results[f] = HitValue(cache, f, FirstHit(cache, f))

\* both locations of TotalChips answer, with different values
C2_Witness ==
    /\ pc = "done"
    /\ "TotalChips" \in DOMAIN results
    /\ Hits(cache, "TotalChips") = {1, 2}
    /\ HitValue(cache, "TotalChips", 1) # HitValue(cache, "TotalChips", 2)

(* C3: within one collect call nothing is extracted before every required  *)
(* command has been attempted: once the extraction has run, no command is  *)
(* left to send and every required command has an outcome.                 *)
C3_ExecutionBeforeExtraction ==
    (pc \in PostExtract \/ results # EmptyMap) =>
        /\ pending = {}
        /\ DOMAIN outcome = CommandsReferencedBy(fields)

\* a call with two commands, one of which failed, has extracted a field
C3_Witness ==
    /\ pc = "done"
    /\ Len(sent) = 2
    /\ outcome[SYSTEM_INFO_CMD] = Failed
    /\ results # EmptyMap

ThisCallCache == [c \in Succeeded |-> outcome[c]]

(* C4: the command cache is not carried across collect calls: the mapping  *)
(* a call returns is the one its own responses give on an empty cache, so  *)
(* a command that failed in this call contributes nothing to it.           *)
C4_NoCrossCallCache ==
    pc = "done" =>
        /\ results = ExtractLoop(ThisCallCache, fields, EmptyMap)
        /\ \A f \in DOMAIN results :
              \E j \in DOMAIN get_locations(f) :
                  get_locations(f)[j].cmd \in Succeeded

(* C5: a failed command stores nothing and raises nothing: on a new        *)
(* DataCollector the cache holds, at every point of the first call,        *)
(* exactly the commands sent so far that answered, each with the response  *)
(* it answered with; after collect(F) these are the required commands      *)
(* that succeeded.                                                         *)
C5_CacheIsSuccessfulResponses ==
    calls = 1 =>
        /\ pc # "error"
        /\ DOMAIN cache = Succeeded
        /\ \A c \in DOMAIN cache : cache[c] = outcome[c]
        /\ pc \in PostExtract =>
              DOMAIN cache =
                  { c \in CommandsReferencedBy(fields) : outcome[c] # Failed }

\* first call, system/info failed and system/asic answered
C5_Witness ==
    /\ calls = 1
    /\ pc = "done"
    /\ SYSTEM_INFO_CMD \in DOMAIN outcome
    /\ outcome[SYSTEM_INFO_CMD] = Failed
    /\ cache = [c \in {ASIC_INFO_CMD} |-> AsicFull]

SuppliedThisCall(f) ==
    \E j \in DOMAIN get_locations(f) :
        /\ get_locations(f)[j].cmd \in Succeeded
        /\ ApplyExtractor(get_locations(f)[j],
                          outcome[get_locations(f)[j].cmd]) # None

(* C6: a failed command or an extractor miss never aborts the collection:  *)
(* collect never ends in an error, a running call can always take its      *)
(* next step, and when it returns every required command has been         *)
(* attempted and every requested field that some answered response         *)
(* supplies is in the mapping.                                             *)
C6_FailuresDoNotAbort ==
    /\ pc # "error"
    /\ pc = "exec" =>
          ENABLED (Extract \/ \E c \in Commands : \E r \in Responses(c) : SendCommand(c, r))
    /\ pc \in PostExtract =>
          /\ DOMAIN outcome = CommandsReferencedBy(fields)
          /\ \A f \in FieldsOf(fields) : SuppliedThisCall(f) => f \in DOMAIN results

\* system/info failed first, system/asic was still sent, and TotalChips was
\* extracted next to a field that has nothing to extract
C6_Witness ==
    /\ pc = "done"
    /\ sent = << SYSTEM_INFO_CMD, ASIC_INFO_CMD >>
    /\ outcome[SYSTEM_INFO_CMD] = Failed
    /\ fields = << "Hashrate", "TotalChips" >>
    /\ DOMAIN results = {"TotalChips"}

IsNullOrEmpty(v) ==
    \/ v.t = "null"
    \/ v.t = "str" /\ v.v = ""
    \/ v.t = "obj" /\ DOMAIN v.v = {}
    \/ v.t = "arr" /\ v.v = << >>

(* C7: a field no location yields a value for is absent from the mapping,  *)
(* and the mapping never holds a null or empty value, also when a cached   *)
(* response carries the key with a JSON null.                              *)
C7_NoNullInMapping ==
    pc \in PostExtract =>
        /\ \A f \in FieldsOf(fields) : Hits(cache, f) = {} => f \notin DOMAIN results
        /\ \A f \in DOMAIN results : ~IsNullOrEmpty(results[f])

MinerDataFields ==
    {"schema_version", "timestamp", "ip", "mac", "device_info", "serial_number",
     "hostname", "api_version", "firmware_version", "control_board_version",
     "expected_hashboards", "hashboards", "hashrate", "expected_chips",
     "total_chips", "expected_fans", "fans", "psu_fans", "average_temperature",
     "fluid_temperature", "wattage", "wattage_limit", "efficiency",
     "light_flashing", "messages", "uptime", "is_mining", "pools"}

(* C8: get_data never hands a failure to its caller: whatever the          *)
(* commands answer (all fail, some fail, missing or mistyped values) the   *)
(* call never ends in an error, can always take its next step until it     *)
(* has returned, and what it returns is a MinerData.                       *)
C8_GetDataAlwaysReturns ==
    in_get_data =>
        /\ pc # "error"
        /\ pc \in {"exec", "collected"} => ENABLED Next
        /\ pc = "returned" =>
              /\ snapshot # NoSnapshot
              /\ DOMAIN snapshot.v = MinerDataFields
              /\ snapshot.v.timestamp \in Timestamps

\* get_data returned although every command failed
C8_Witness ==
    /\ in_get_data
    /\ pc = "returned"
    /\ DOMAIN outcome = Commands
    /\ \A c \in Commands : outcome[c] = Failed
    /\ snapshot # NoSnapshot

\* get_data returned on a response with null and mistyped values
C8_WitnessMistyped ==
    /\ in_get_data
    /\ pc = "returned"
    /\ SYSTEM_INFO_CMD \in DOMAIN outcome
    /\ outcome[SYSTEM_INFO_CMD] = InfoNulls
    /\ snapshot # NoSnapshot

TelemetryUnset(m) ==
    /\ m.mac = None /\ m.hostname = None /\ m.api_version = None
    /\ m.firmware_version = None /\ m.control_board_version = None
    /\ m.serial_number = None
    /\ m.hashrate = None /\ m.total_chips = None /\ m.wattage = None
    /\ m.wattage_limit = None /\ m.efficiency = None
    /\ m.average_temperature = None /\ m.fluid_temperature = None
    /\ m.light_flashing = None /\ m.uptime = None
    /\ m.hashboards = << >>
    /\ m.fans = << >>
    /\ m.psu_fans = << >>
    /\ m.messages = << >>
    /\ m.pools = << >>

AllCommandsFailed ==
    DOMAIN outcome = Commands /\ \A c \in Commands : outcome[c] = Failed

(* C9: when every command fails, the MinerData get_data returns has only   *)
(* its intrinsic fields set: no board, chip, fan or pool entry and no      *)
(* telemetry value.                                                        *)
C9_TotalFailureOnlyIntrinsic ==
    (in_get_data /\ pc = "returned" /\ AllCommandsFailed) =>
        TelemetryUnset(snapshot.v)

Extracted(T, field, key) == extract_nested(results, T, field, key) # None

PoolTraces(pool, hostKey, portKey) ==
    /\ pool.url # None =>
          /\ Extracted("String", "Pools", hostKey)
          /\ Extracted("u64", "Pools", portKey)
    /\ pool.active # None => Extracted("bool", "Pools", "isUsingFallbackStratum")

BoardTraces(board) ==
    /\ board.expected_hashrate # None =>
          Extracted("f64", "Hashboards", "expectedHashrate")
    /\ board.active # None => "Hashboards" \in DOMAIN results
    /\ \A i \in DOMAIN board.chips :
          board.chips[i].working # None => "Hashboards" \in DOMAIN results

(* C10: every populated telemetry value of the MinerData comes from a      *)
(* successful extraction; a value whose raw input was not extracted is     *)
(* unset, never a default: the board's expected hashrate, the pools' host, *)
(* port and active flag, the chip's working and the board's active flag.   *)
C10_NoDefaultedTelemetry ==
    (in_get_data /\ pc = "returned") =>
        /\ \A i \in DOMAIN snapshot.v.hashboards : BoardTraces(snapshot.v.hashboards[i])
        /\ Len(snapshot.v.pools) >= 1 =>
              PoolTraces(snapshot.v.pools[1], "stratumUrl", "stratumPort")
        /\ Len(snapshot.v.pools) >= 2 =>
              PoolTraces(snapshot.v.pools[2], "fallbackStratumURL", "fallbackStratumPort")

----------------------------------------------------------------------------
(* C11: the snapshot carries an efficiency exactly when it carries both a
   hashrate and a wattage (which get_data read from the extracted Hashrate
   and Wattage entries); when either is missing the efficiency is None, not
   zero and not any other number. *)
C11_EfficiencyIffBothInputs ==
    pc = "returned" =>
        LET m == snapshot.v
        IN  /\ m.efficiency # None <=> (m.hashrate # None /\ m.wattage # None)
            /\ m.efficiency # None => {"Hashrate", "Wattage"} \subseteq DOMAIN results

\* a hashrate without a wattage: the snapshot has no efficiency
C11_Witness ==
    /\ pc = "returned"
    /\ snapshot.v.hashrate # None
    /\ snapshot.v.wattage = None
    /\ snapshot.v.efficiency = None

(* C12: when both inputs are present the efficiency is the quotient of the
   wattage by hashrate/1000: for a non-zero hashrate the exact fraction
   1000*w/hr (100 W at 50 GH/s give 2000), for a hashrate of 0 the IEEE
   quotient by zero (inf, or NaN for 0/0), never an absent value. *)
C12_EfficiencyFormula ==
    (pc = "returned" /\ snapshot.v.hashrate # None /\ snapshot.v.wattage # None) =>
        LET hr == snapshot.v.hashrate.v.value
            w == snapshot.v.wattage.v.watts
            e == snapshot.v.efficiency
        IN  /\ e # None
            /\ hr # 0 => e.v.f = "finite" /\ e.v.n * hr = e.v.d * w * 1000
            /\ (hr = 0 /\ w # 0) => e.v.f = "inf"
            /\ (hr = 0 /\ w = 0) => e.v.f = "NaN"
            /\ (hr = 50 /\ w = 100) => e.v = [f |-> "finite", n |-> 2000, d |-> 1]

\* 100 W at 50 GH/s
C12_Witness ==
    /\ pc = "returned"
    /\ snapshot.v.hashrate # None /\ snapshot.v.hashrate.v.value = 50
    /\ snapshot.v.wattage # None /\ snapshot.v.wattage.v.watts = 100
    /\ snapshot.v.efficiency = Some([f |-> "finite", n |-> 2000, d |-> 1])

\* 100 W at a reported hashrate of 0
C12_WitnessZeroHashrate ==
    /\ pc = "returned"
    /\ snapshot.v.hashrate # None /\ snapshot.v.hashrate.v.value = 0
    /\ snapshot.v.wattage # None
    /\ snapshot.v.efficiency = Some([f |-> "inf"])

\* the running call has the fields of the recorded one and every command
\* answered what it answered then
SameResponsesAsBefore ==
    /\ prev # NoCall
    /\ prev.fields = fields
    /\ prev.outcome = outcome

(* C13: a call repeated for the same fields, with every command answering
   what it answered in the call before, returns the mapping the call before
   returned, on the same DataCollector as well; a repeated get_data then
   derives the same MinerData, the timestamp aside. *)
C13_RepeatIsIdempotent ==
    SameResponsesAsBefore =>
        /\ pc \in PostExtract => results = prev.results
        /\ pc = "returned" =>
              \A k \in MinerDataFields \ {"timestamp"} :
                  snapshot.v[k] = prev.snapshot.v[k]

\* a second collect for TotalChips on the same collector, both commands
\* answering as before but visited in the other order
C13_Witness ==
    /\ SameResponsesAsBefore
    /\ pc = "done"
    /\ ~in_get_data
    /\ fields = <<"TotalChips">>
    /\ Succeeded = Commands
    /\ prev.sent # sent
    /\ "TotalChips" \in DOMAIN results

\* a second get_data with the same responses
C13_WitnessGetData ==
    /\ SameResponsesAsBefore
    /\ pc = "returned"
    /\ Succeeded # {}
    /\ snapshot.v.hashrate # None
    /\ snapshot.v.timestamp # prev.snapshot.v.timestamp

\* every order in which the HashSet may yield the commands of S
Orders(S) ==
    { q \in [1..Cardinality(S) -> S] : { q[i] : i \in DOMAIN q } = S }

\* the cache after the command loop visited the commands in the given order,
\* each answering out[command]
RECURSIVE CacheAfterOrder(_, _, _)
CacheAfterOrder(c, order, out) ==
    IF order = << >> THEN c
    ELSE CacheAfterOrder(CacheAfterSend(c, Head(order), out[Head(order)]),
                         Tail(order), out)

(* C14: what collect returns does not depend on the order in which the
   commands were executed: on a new collector every order of the same
   per-command outcomes ends in the cache and the mapping this run ended
   in, and a repeated call that visited the commands in another order with
   the same outcomes ends in the same cache and mapping. *)
C14_OrderIndependent ==
    /\ (pc \in PostExtract /\ calls = 1) =>
          \A order \in Orders(DOMAIN outcome) :
              /\ CacheAfterOrder(NewCache, order, outcome) = cache
              /\ ExtractLoop(CacheAfterOrder(NewCache, order, outcome),
                             fields, EmptyMap) = results
    /\ (pc \in PostExtract /\ SameResponsesAsBefore /\ prev.sent # sent) =>
          /\ cache = prev.cache
          /\ results = prev.results

\* two runs over both commands in opposite orders, one command failing
C14_Witness ==
    /\ pc = "done"
    /\ SameResponsesAsBefore
    /\ prev.sent = <<SYSTEM_INFO_CMD, ASIC_INFO_CMD>>
    /\ sent = <<ASIC_INFO_CMD, SYSTEM_INFO_CMD>>
    /\ outcome[ASIC_INFO_CMD] = Failed
    /\ outcome[SYSTEM_INFO_CMD] # Failed
    /\ results # EmptyMap

\* every field of the running call has no declared location
OnlyUnlocatedFields ==
    /\ fields # << >>
    /\ \A i \in DOMAIN fields : get_locations(fields[i]) = << >>

(* C15: a collect whose fields have no declared location sends no command
   at all and returns a mapping without them; more generally a field
   without locations is never a key of the returned mapping. *)
C15_NoLocationNoCommand ==
    /\ OnlyUnlocatedFields =>
          /\ pending = {}
          /\ sent = << >>
          /\ results = EmptyMap
    /\ \A f \in DataField : get_locations(f) = << >> => f \notin DOMAIN results

\* collect([SerialNumber]) has returned, on a collector whose cache holds a
\* response of an earlier call
C15_Witness ==
    /\ pc = "done"
    /\ fields = <<"SerialNumber">>
    /\ cache # EmptyMap
    /\ sent = << >>
    /\ results = EmptyMap

(* C16: TotalChips declares [(system/info, asicCount), (system/asic,
   asicCount)]; when system/info fails and system/asic answers with an
   asicCount, the mapping collect returns holds TotalChips with the value
   system/asic sent. *)
C16_FallbackToSecondSource ==
    (/\ pc = "done"
     /\ "TotalChips" \in FieldsOf(fields)
     /\ outcome[SYSTEM_INFO_CMD] = Failed
     /\ outcome[ASIC_INFO_CMD] # Failed
     /\ get_by_key(outcome[ASIC_INFO_CMD], Some("asicCount")) # None) =>
        /\ "TotalChips" \in DOMAIN results
        /\ results["TotalChips"] = outcome[ASIC_INFO_CMD].v.asicCount

\* what collect(DataField::iter()) returns on the cache c
MappingOfAllFields(c) ==
    [f \in { g \in DataField : Hits(c, g) # {} } |-> HitValue(c, f, FirstHit(c, f))]

(* C17: the keys of the mapping collect returns are requested fields: a
   field outside the request is not extracted, also when the cache holds a
   response that supplies it; collect_all requests every enumerated
   DataField once and returns what collect returns for all of them. *)
C17_ExactlyTheRequestedFields ==
    /\ DOMAIN results \subseteq FieldsOf(fields)
    /\ pc \in PostExtract =>
          \A f \in FieldsOf(fields) : f \in DOMAIN results <=> Hits(cache, f) # {}
    /\ (in_get_data /\ pc \in PostExtract) =>
          /\ FieldsOf(fields) = DataField
          /\ Len(fields) = Cardinality(DataField)
          /\ results = MappingOfAllFields(cache)

\* collect([TotalChips]) returned while the cached system/info response also
\* supplies Hashrate
C17_Witness ==
    /\ pc = "done"
    /\ fields = <<"TotalChips">>
    /\ Hits(cache, "Hashrate") # {}
    /\ "Hashrate" \notin DOMAIN results
    /\ "TotalChips" \in DOMAIN results

\* collect_all returned a mapping with several fields
C17_WitnessCollectAll ==
    /\ in_get_data
    /\ pc = "collected"
    /\ {"Hashrate", "TotalChips", "Hashboards"} \subseteq DOMAIN results

\* the pointer tokens the lookups are checked against, unescaped
TokenUniverse ==
    { << >>, <<"p">>, <<"h">>, <<"n">>, <<"u">>, <<"x">>, <<"z", "z">>,
      <<"0">>, <<"1">>, <<"2">>, <<"0", "1">>, <<"+", "1">>,
      <<"a", "/", "b">>, <<"m", "~", "n">> }

\* RFC 6901 escaping of a token: '~' is written ~0 and '/' is written ~1
RECURSIVE EscapeToken(_)
EscapeToken(tok) ==
    IF tok = << >> THEN << >>
    ELSE (CASE Head(tok) = "~" -> <<"~", "0">>
            [] Head(tok) = "/" -> <<"~", "1">>
            [] OTHER -> << Head(tok) >>) \o EscapeToken(Tail(tok))

\* the pointer that names the path toks: each segment preceded by a slash
RECURSIVE JoinPath(_)
JoinPath(toks) ==
    IF toks = << >> THEN << >>
    ELSE <<"/">> \o EscapeToken(Head(toks)) \o JoinPath(Tail(toks))

SlashCount(chars) == Cardinality({ i \in DOMAIN chars : chars[i] = "/" })

\* the paths over TokenUniverse that the pointer chars names
PathsNamedBy(chars) ==
    { toks \in [1..SlashCount(chars) -> TokenUniverse] : JoinPath(toks) = chars }

\* the decimal numeral of a position
IndexToken(n) ==
    CASE n = 0 -> <<"0">> [] n = 1 -> <<"1">> [] n = 2 -> <<"2">>
      [] n = 3 -> <<"3">> [] OTHER -> <<"?">>

\* the values one segment leads to from v: the member stored under the
\* segment as a key of an object, the element at the position the segment
\* is the numeral of in an array, nothing in any other value
Children(v, tok) ==
    IF v.t = "obj"
    THEN { v.v[k] : k \in { x \in DOMAIN v.v : x = StringOf(tok) } }
    ELSE IF v.t = "arr"
    THEN { v.v[i] : i \in { x \in 1..Len(v.v) : IndexToken(x - 1) = tok } }
    ELSE {}

RECURSIVE Reached(_, _)
Reached(S, toks) ==
    IF toks = << >> THEN S
    ELSE Reached(UNION { Children(v, Head(toks)) : v \in S }, Tail(toks))

(* C18: get_by_pointer returns the value the path leads to when every
   segment resolves (a key of an object, a position of an array) and None
   as soon as one does not (missing key, position out of range or not a
   numeral, descent into a scalar or null); the empty pointer returns the
   whole response; a non-empty pointer without a leading slash, or no
   pointer at all, returns None. *)
C18_PointerLookup ==
    (probe # NoProbe /\ probe.func = "get_by_pointer") =>
        /\ probe.key = None => probe.result = None
        /\ probe.key # None =>
            LET ptr == probe.key.v
            IN  /\ ptr = << >> => probe.result = Some(probe.data)
                /\ (ptr # << >> /\ Head(ptr) # "/") => probe.result = None
                /\ (ptr = << >> \/ Head(ptr) = "/") => PathsNamedBy(ptr) # {}
                /\ \A toks \in PathsNamedBy(ptr) :
                      LET ends == Reached({probe.data}, toks)
                      IN  /\ ends = {} => probe.result = None
                          /\ ends # {} =>
                                /\ probe.result # None
                                /\ ends = {probe.result.v}
        /\ (probe.data = LookupDoc
            /\ probe.key = Some(<<"/", "p", "/", "0", "/", "u">>)) =>
                probe.result = Some(JStr("a"))

\* "/p/1" on an object whose "p" is an array: its second element
C18_Witness ==
    /\ probe # NoProbe
    /\ probe.func = "get_by_pointer"
    /\ probe.data = LookupDoc
    /\ probe.key = Some(<<"/", "p", "/", "1">>)
    /\ probe.result = Some(JObj([u |-> JStr("b")]))

\* an index past the end of the array: absent
C18_WitnessOutOfRange ==
    /\ probe # NoProbe
    /\ probe.func = "get_by_pointer"
    /\ probe.data = LookupDoc
    /\ probe.key = Some(<<"/", "p", "/", "2">>)
    /\ probe.result = None

NotKeyed == {"arr", "num", "str", "bool", "null"}

(* C19: get_by_key returns the value stored under the key when the
   response is an object that has the key (whatever the value, null
   included), and None in every other case: the object lacks the key, the
   response is an array, a scalar or null, or no key was given. *)
C19_KeyLookup ==
    (probe # NoProbe /\ probe.func = "get_by_key") =>
        /\ probe.key = None => probe.result = None
        /\ probe.data.t \in NotKeyed => probe.result = None
        /\ (probe.key # None /\ probe.data.t = "obj") =>
            /\ probe.key.v \notin DOMAIN probe.data.v => probe.result = None
            /\ probe.key.v \in DOMAIN probe.data.v =>
                  probe.result = Some(probe.data.v[probe.key.v])
        /\ probe.data.t \in NotKeyed \cup {"obj"}

\* the key "h" of an object that holds it
C19_Witness ==
    /\ probe # NoProbe
    /\ probe.func = "get_by_key"
    /\ probe.data = LookupDoc
    /\ probe.key = Some("h")
    /\ probe.result = Some(JNum(50))

\* no key given, on an object
C19_WitnessNoKey ==
    /\ probe # NoProbe
    /\ probe.func = "get_by_key"
    /\ probe.data = LookupDoc
    /\ probe.key = None
    /\ probe.result = None

----------------------------------------------------------------------------
\* a send_command call is in its loop or has returned
WebCalled == web.pc \in {"loop", "returned"}

\* the attempts made so far that produced a decoded response
DecodedAttempts == { i \in DOMAIN web.log : Decoded(web.log[i]) }

\* what send_command does up to and at its return
C25_AttemptsAndReturn ==
    WebCalled =>
        /\ Len(web.log) <= web.retries + 1
        /\ \A i \in DecodedAttempts :
              /\ i = Len(web.log)
              /\ web.pc = "returned"
              /\ web.ret = Ok(json(web.log[i].v.body).v)
        /\ (web.pc = "returned" /\ web.ret.t = "ok") => DecodedAttempts # {}
        /\ (web.pc = "returned" /\ web.ret.t = "err") =>
              /\ Len(web.log) = web.retries + 1
              /\ DecodedAttempts = {}

(* C25: send_command with retries = r makes at most r + 1 attempts; the
   first attempt that gives a success status and a decodable body is the
   last one made and its decoded body is what is returned; an error is
   returned only after r + 1 attempts have failed; and a call that has
   entered its loop returns. *)
C25_BoundedRetriesAndReturn ==
    /\ []C25_AttemptsAndReturn
    /\ (web.pc = "loop") ~> (web.pc = "returned")

\* retries = 2: two failed attempts, then a decoded response on the third
C25_Witness ==
    /\ web.pc = "returned"
    /\ web.retries = 2
    /\ Len(web.log) = 3
    /\ DecodedAttempts = {3}
    /\ web.ret = Ok(JObj([hashRate |-> JNum(50)]))

\* retries = 2: a decoded response on the first attempt, no further attempt
C25_WitnessFirstAttempt ==
    /\ web.pc = "returned"
    /\ web.retries = 2
    /\ Len(web.log) = 1
    /\ web.ret.t = "ok"

(* C26: when every attempt failed, send_command with ignore_errors = false
   returns the error of the last attempt (the transport error,
   HttpError with that attempt's status, or ParseError for an undecodable
   body) and with ignore_errors = true returns MaxRetriesExceeded. *)
C26_ErrorOfLastAttempt ==
    (web.pc = "returned" /\ web.ret.t = "err") =>
        /\ ~web.ignore_errors =>
              /\ web.ret.e = ErrorOf(web.log[Len(web.log)])
              /\ web.log[Len(web.log)].t = "err" =>
                    web.ret.e = web.log[Len(web.log)].e
              /\ (web.log[Len(web.log)].t = "ok"
                  /\ web.log[Len(web.log)].v.status \notin 200..299) =>
                    web.ret.e = HttpError(web.log[Len(web.log)].v.status)
              /\ (web.log[Len(web.log)].t = "ok"
                  /\ web.log[Len(web.log)].v.status \in 200..299) =>
                    web.ret.e = ParseError
        /\ web.ignore_errors => web.ret.e = MaxRetriesExceeded

\* a timeout, then a 500: HttpError(500) is returned
C26_Witness ==
    /\ web.pc = "returned"
    /\ ~web.ignore_errors
    /\ web.retries = 1
    /\ web.log = << Err(Timeout), Ok(Response(500, "{}")) >>
    /\ web.ret = Err(HttpError(500))

\* the same failures with ignore_errors = true
C26_WitnessIgnoreErrors ==
    /\ web.pc = "returned"
    /\ web.ignore_errors
    /\ web.retries = 1
    /\ web.log = << Err(Timeout), Ok(Response(500, "{}")) >>
    /\ web.ret = Err(MaxRetriesExceeded)

----------------------------------------------------------------------------
(* C22: a get_data call sends system/info and system/asic, each exactly
   once, and nothing else: no restart, no settings update, at no point of
   the call; system/asic is sent whatever system/info answered. *)
C22_GetDataReadsOnly ==
    in_get_data =>
        /\ \A i \in DOMAIN sent : sent[i] \in Commands
        /\ \A i \in DOMAIN sent : sent[i] \notin ControlCommands
        /\ \A c \in ApiCommands : TimesSent(c) <= 1
        /\ pc \in PostExtract =>
              \A c \in ApiCommands :
                  TimesSent(c) = IF c \in {"system/info", "system/asic"} THEN 1 ELSE 0

\* system/info answered with an asicCount, and system/asic was sent after it
C22_Witness ==
    /\ in_get_data
    /\ pc = "returned"
    /\ sent = <<"system/info", "system/asic">>
    /\ HasKey(outcome["system/info"], "asicCount")

\* the cached response of the command holds the key asicCount
HoldsAsicCount(command) ==
    command \in DOMAIN cache /\ HasKey(cache[command], "asicCount")

\* the u64 a raw value is read as, the low 16 bits of which are kept
ChipsOf(raw) ==
    IF raw.t = "num" /\ raw.v >= 0 THEN Some(raw.v % 65536) ELSE None

(* C23: TotalChips is the asicCount of the cached system/info response
   whenever that response holds the key; it is the asicCount of system/asic
   only when system/info is not cached or lacks the key; it is absent when
   neither holds the key.  get_data's total_chips is read from that value
   and from no other. *)
C23_TotalChipsSource ==
    /\ (pc \in PostExtract /\ "TotalChips" \in FieldsOf(fields)) =>
          /\ HoldsAsicCount(SYSTEM_INFO_CMD) =>
                /\ "TotalChips" \in DOMAIN results
                /\ results["TotalChips"] = cache[SYSTEM_INFO_CMD].v.asicCount
          /\ (~HoldsAsicCount(SYSTEM_INFO_CMD) /\ HoldsAsicCount(ASIC_INFO_CMD)) =>
                /\ "TotalChips" \in DOMAIN results
                /\ results["TotalChips"] = cache[ASIC_INFO_CMD].v.asicCount
          /\ (~HoldsAsicCount(SYSTEM_INFO_CMD) /\ ~HoldsAsicCount(ASIC_INFO_CMD)) =>
                "TotalChips" \notin DOMAIN results
    /\ pc = "returned" =>
          /\ HoldsAsicCount(SYSTEM_INFO_CMD) =>
                snapshot.v.total_chips = ChipsOf(cache[SYSTEM_INFO_CMD].v.asicCount)
          /\ (~HoldsAsicCount(SYSTEM_INFO_CMD) /\ HoldsAsicCount(ASIC_INFO_CMD)) =>
                snapshot.v.total_chips = ChipsOf(cache[ASIC_INFO_CMD].v.asicCount)
          /\ (~HoldsAsicCount(SYSTEM_INFO_CMD) /\ ~HoldsAsicCount(ASIC_INFO_CMD)) =>
                snapshot.v.total_chips = None

\* both answered, system/info with 1 chip and system/asic with 2: 1 is taken
C23_Witness ==
    /\ pc = "returned"
    /\ outcome[SYSTEM_INFO_CMD] = InfoFull
    /\ outcome[ASIC_INFO_CMD] = AsicFull
    /\ snapshot.v.total_chips = Some(1)

\* system/info answered without asicCount: system/asic's 2 is taken
C23_WitnessFallback ==
    /\ pc = "returned"
    /\ outcome[SYSTEM_INFO_CMD] = InfoNoAsic
    /\ outcome[ASIC_INFO_CMD] = AsicFull
    /\ snapshot.v.total_chips = Some(2)

(* C24: is_mining is TRUE exactly when the snapshot has a hashrate and its
   value is greater than 0; it is FALSE when the hashrate is absent (not
   sent, null or mistyped) and when it is 0. *)
C24_IsMiningIffPositiveHashrate ==
    pc = "returned" =>
        /\ snapshot.v.is_mining \in BOOLEAN
        /\ snapshot.v.is_mining <=>
              (snapshot.v.hashrate # None /\ snapshot.v.hashrate.v.value > 0)
        /\ snapshot.v.hashrate # None => "Hashrate" \in DOMAIN results

\* a reported hashrate of 0: not mining
C24_Witness ==
    /\ pc = "returned"
    /\ snapshot.v.hashrate # None
    /\ snapshot.v.hashrate.v.value = 0
    /\ snapshot.v.is_mining = FALSE

\* a hashrate of 50: mining
C24_WitnessMining ==
    /\ pc = "returned"
    /\ snapshot.v.hashrate # None
    /\ snapshot.v.hashrate.v.value = 50
    /\ snapshot.v.is_mining = TRUE

\* the device reported isUsingFallbackStratum = true
ReportsFallback ==
    /\ "Pools" \in DOMAIN results
    /\ HasKey(results["Pools"], "isUsingFallbackStratum")
    /\ results["Pools"].v.isUsingFallbackStratum = JBool(TRUE)

(* C27: the snapshot lists exactly two pools, the main pool at position 0
   and the fallback pool at position 1; exactly one of them is active: the
   fallback pool when the device reported isUsingFallbackStratum = true,
   the main pool in every other case (flag false, missing, mistyped, or
   nothing collected). *)
C27_TwoPoolsOneActive ==
    pc = "returned" =>
        LET ps == snapshot.v.pools
        IN  /\ Len(ps) = 2
            /\ ps[1].position = Some(0)
            /\ ps[2].position = Some(1)
            /\ {ps[1].active, ps[2].active} = {Some(TRUE), Some(FALSE)}
            /\ ps[2].active = Some(TRUE) <=> ReportsFallback
            /\ ps[1].active = Some(TRUE) <=> ~ReportsFallback

\* the device is on its fallback pool
C27_Witness ==
    /\ pc = "returned"
    /\ ReportsFallback
    /\ snapshot.v.pools[1].active = Some(FALSE)
    /\ snapshot.v.pools[2].active = Some(TRUE)

\* the flag is missing: the main pool is the active one
C27_WitnessNoFlag ==
    /\ pc = "returned"
    /\ Succeeded # {}
    /\ ~HasKey(outcome[SYSTEM_INFO_CMD], "isUsingFallbackStratum")
    /\ snapshot.v.pools[1].active = Some(TRUE)
    /\ snapshot.v.pools[2].active = Some(FALSE)

\* the raw number under key of the Pools value, if it is one
RawPort(key) ==
    IF /\ "Pools" \in DOMAIN results
       /\ HasKey(results["Pools"], key)
       /\ results["Pools"].v[key].t = "num"
       /\ results["Pools"].v[key].v >= 0
    THEN Some(results["Pools"].v[key].v) ELSE None

(* C28: total_chips is the extracted asicCount modulo 2^16 and each pool
   port is the extracted stratum port modulo 2^16: a raw value above 65535
   is stored as its low 16 bits, not rejected and not left unset. *)
C28_TruncationTo16Bits ==
    pc = "returned" =>
        /\ ("TotalChips" \in DOMAIN results /\ results["TotalChips"].t = "num"
            /\ results["TotalChips"].v >= 0) =>
              /\ snapshot.v.total_chips # None
              /\ snapshot.v.total_chips.v = results["TotalChips"].v % 65536
        /\ RawPort("stratumPort") # None =>
              snapshot.v.pools[1].url.v.port = RawPort("stratumPort").v % 65536
        /\ RawPort("fallbackStratumPort") # None =>
              snapshot.v.pools[2].url.v.port = RawPort("fallbackStratumPort").v % 65536
        /\ snapshot.v.total_chips # None => snapshot.v.total_chips.v \in 0..65535
        /\ \A i \in 1..2 : snapshot.v.pools[i].url.v.port \in 0..65535

\* asicCount 65537 is stored as 1, ports 68869 and 69980 as 3333 and 4444
C28_Witness ==
    /\ pc = "returned"
    /\ outcome[SYSTEM_INFO_CMD] = InfoFallback
    /\ results["TotalChips"] = JNum(65537)
    /\ snapshot.v.total_chips = Some(1)
    /\ results["Pools"].v.stratumPort = JNum(68869)
    /\ snapshot.v.pools[1].url.v.port = 3333
    /\ results["Pools"].v.fallbackStratumPort = JNum(69980)
    /\ snapshot.v.pools[2].url.v.port = 4444

----------------------------------------------------------------------------
\* the responses that arrived during d's own call
OwnResponses(d) ==
    LET out == FleetCalls[d].outcome
    IN  [c \in { x \in DOMAIN out : out[x] # Failed } |-> out[c]]

\* the mapping d's call returns when it runs alone
OwnMapping(d) == ExtractLoop(OwnResponses(d), collect_all_fields, EmptyMap)

(* C21: two get_data calls on two devices, interleaved in any way at their
   send_command awaits, share nothing: at every point the cache of each
   call holds exactly the responses of its own device, and the mapping and
   the snapshot of each call are those of the same call run alone. *)
C21_NoSharedState ==
    \A d \in Devices :
        LET call == FleetCalls[d]
        IN  /\ call.pc # "idle" => FleetCaches[CacheSlot(d)] = OwnResponses(d)
            /\ call.pc \in {"collected", "returned"} => call.results = OwnMapping(d)
            /\ call.pc = "returned" =>
                  call.snapshot =
                      Some(MinerData(OwnMapping(d), call.snapshot.v.timestamp))

\* both calls are in their command loop, each with one answer so far, the
\* two devices having answered system/info differently
C21_Witness ==
    /\ FleetCalls["a"].pc = "exec"
    /\ FleetCalls["b"].pc = "exec"
    /\ FleetCalls["a"].outcome = (SYSTEM_INFO_CMD :> InfoFull)
    /\ FleetCalls["b"].outcome = (SYSTEM_INFO_CMD :> InfoFallback)

\* both calls returned, with the hashrate of their own device
C21_WitnessReturned ==
    /\ FleetCalls["a"].pc = "returned"
    /\ FleetCalls["b"].pc = "returned"
    /\ FleetCalls["a"].snapshot.v.hashrate = Some(HashRateGiga(50))
    /\ FleetCalls["b"].snapshot.v.hashrate = Some(HashRateGiga(0))

====
